---- MODULE Spec2Model ----
(***************************************************************************)
(* Multi-tenant session propagation of the BIwithAI front-end:             *)
(*   - tenant resolution from the hostname          (utils/tenant.ts)      *)
(*   - per-origin persisted Session Store           (store/authStore.ts)   *)
(*   - Gateway Client: header injection and the retry-once-on-401 policy   *)
(*                                                  (api/client.ts)        *)
(*   - Login Orchestrator                           (hooks/useAuth.ts)     *)
(*   - Transfer Handoff: redirectToSubdomain (sender) and the AuthTransfer *)
(*     page (receiver)                                                     *)
(*                                                                         *)
(* Strings that travel through a URL are sequences of one-character        *)
(* strings, so that percent-encoding and form-encoding are computed.       *)
(***************************************************************************)
EXTENDS Integers, Sequences, FiniteSets, TLC

\* JavaScript null for strings.  The code tests these values for truthiness only
\* (if (token), !token || !refreshToken, if (subdomain), x || '/home'), and the
\* empty string is as falsy as null, so both are the empty sequence.
Null == <<>>

(***************************************************************************)
(* Characters and the URL codecs                                           *)
(***************************************************************************)

\* ASCII characters that the model's strings are made of, with the two hex
\* digits of their code
PctTable ==
  << <<"%", "2", "5">>, <<"&", "2", "6">>, <<"=", "3", "D">>,
     <<"+", "2", "B">>, <<" ", "2", "0">>, <<"/", "2", "F">>,
     <<"{", "7", "B">>, <<"}", "7", "D">>, <<":", "3", "A">>,
     <<",", "2", "C">>, <<"\"", "2", "2">>, <<"[", "5", "B">>,
     <<"]", "5", "D">>, <<"?", "3", "F">>, <<"!", "2", "1">> >>

AlphaNum ==
  {"a", "b", "c", "d", "e", "f", "g", "h", "i", "j", "k", "l", "m", "n", "o",
   "p", "q", "r", "s", "t", "u", "v", "w", "x", "y", "z",
   "A", "B", "C", "D", "E", "F",
   "0", "1", "2", "3", "4", "5", "6", "7", "8", "9"}

Digits == {"0", "1", "2", "3", "4", "5", "6", "7", "8", "9"}

HexDigits == Digits \cup {"A", "B", "C", "D", "E", "F", "a", "b", "c", "d", "e", "f"}

UpperHex(c) ==
  CASE c = "a" -> "A" [] c = "b" -> "B" [] c = "c" -> "C"
    [] c = "d" -> "D" [] c = "e" -> "E" [] c = "f" -> "F" [] OTHER -> c

\* characters encodeURIComponent leaves alone: A-Z a-z 0-9 - _ . ! ~ * ' ( )
UriUnreserved == AlphaNum \cup {"-", "_", ".", "!", "~", "*", "'", "(", ")"}

\* characters the application/x-www-form-urlencoded serializer leaves alone
FormUnreserved == AlphaNum \cup {"*", "-", ".", "_"}

PctEscape(c) ==
  IF \E i \in 1..Len(PctTable) : PctTable[i][1] = c
  THEN LET i == CHOOSE j \in 1..Len(PctTable) : PctTable[j][1] = c
       IN  <<"%", PctTable[i][2], PctTable[i][3]>>
  ELSE <<c>>

\* the character a %XY escape stands for ("@" for a code outside PctTable)
PctUnescape(h1, h2) ==
  IF \E i \in 1..Len(PctTable) :
        PctTable[i][2] = UpperHex(h1) /\ PctTable[i][3] = UpperHex(h2)
  THEN LET i == CHOOSE j \in 1..Len(PctTable) :
                   PctTable[j][2] = UpperHex(h1) /\ PctTable[j][3] = UpperHex(h2)
       IN  PctTable[i][1]
  ELSE "@"

\* concatenation of the sequences ss[lo..hi]
RECURSIVE Concat(_, _, _)
Concat(ss, lo, hi) ==
  IF lo > hi THEN <<>>
  ELSE IF lo = hi THEN ss[lo]
  ELSE LET mid == (lo + hi) \div 2
       IN  Concat(ss, lo, mid) \o Concat(ss, mid + 1, hi)

encodeURIComponent(s) ==
  Concat([i \in 1..Len(s) |->
            IF s[i] \in UriUnreserved THEN <<s[i]>> ELSE PctEscape(s[i])], 1, Len(s))

FormEncode_raw(s) == s

\* URLSearchParams serializer for one name or value: space becomes "+"
FormEncode(s) ==
  Concat([i \in 1..Len(s) |->
            IF s[i] = " " THEN <<"+">>
            ELSE IF s[i] \in FormUnreserved THEN <<s[i]>>
            ELSE PctEscape(s[i])], 1, Len(s))

\* s[i..i+2] is a %XY escape
IsEscapeAt(s, i) ==
  /\ i >= 1
  /\ i + 2 <= Len(s)
  /\ s[i] = "%"
  /\ s[i + 1] \in HexDigits
  /\ s[i + 2] \in HexDigits

\* percent-decoding, left to right: an escape yields its character, its two
\* hex digits yield nothing, anything else (a stray "%" too) is kept
PctDecode(s) ==
  Concat([i \in 1..Len(s) |->
            IF IsEscapeAt(s, i) THEN <<PctUnescape(s[i + 1], s[i + 2])>>
            ELSE IF IsEscapeAt(s, i - 1) \/ IsEscapeAt(s, i - 2) THEN <<>>
            ELSE <<s[i]>>], 1, Len(s))

\* decodeURIComponent: a "%" that does not start a %XY escape is a URIError
decodeURIComponent(s) ==
  IF \A i \in 1..Len(s) : s[i] = "%" => IsEscapeAt(s, i)
  THEN [ok |-> TRUE, val |-> PctDecode(s)]
  ELSE [ok |-> FALSE, val |-> <<>>]

\* URLSearchParams parser for one name or value: "+" becomes space, then a
\* lenient percent-decode
PlusToSpace(s) == [i \in 1..Len(s) |-> IF s[i] = "+" THEN " " ELSE s[i]]

FormDecode(s) == PctDecode(PlusToSpace(s))

\* position of the first c in s, Len(s)+1 when there is none
IndexOf(s, c) ==
  IF \E i \in 1..Len(s) : s[i] = c
  THEN CHOOSE i \in 1..Len(s) : s[i] = c /\ \A j \in 1..(i - 1) : s[j] # c
  ELSE Len(s) + 1

\* new URLSearchParams(init).toString() for a list of <<name, value>> pairs
RECURSIVE ParamsToString(_)
ParamsToString(ps) ==
  IF ps = <<>> THEN <<>>
  ELSE FormEncode(Head(ps)[1]) \o <<"=">> \o FormEncode(Head(ps)[2])
       \o (IF Len(ps) > 1 THEN <<"&">> ELSE <<>>)
       \o ParamsToString(Tail(ps))

\* the URLSearchParams of a query string: the list of decoded <<name, value>>
RECURSIVE ParseQuery(_)
ParseQuery(q) ==
  IF q = <<>> THEN <<>>
  ELSE LET amp  == IndexOf(q, "&")
           part == SubSeq(q, 1, amp - 1)
           rest == SubSeq(q, amp + 1, Len(q))
           eq   == IndexOf(part, "=")
           name == FormDecode(SubSeq(part, 1, eq - 1))
           val  == FormDecode(SubSeq(part, eq + 1, Len(part)))
       IN  (IF part = <<>> THEN <<>> ELSE << <<name, val>> >>) \o ParseQuery(rest)

\* URLSearchParams.get: the first value of the name, or null
SearchParamsGet(q, name) ==
  LET ps == ParseQuery(q)
  IN  IF \E i \in 1..Len(ps) : ps[i][1] = name
      THEN ps[CHOOSE i \in 1..Len(ps) :
                /\ ps[i][1] = name
                /\ \A j \in 1..(i - 1) : ps[j][1] # name][2]
      ELSE Null

Str_token         == <<"t", "o", "k", "e", "n">>
Str_refresh_token == <<"r", "e", "f", "r", "e", "s", "h", "_", "t", "o", "k", "e", "n">>
Str_redirect      == <<"r", "e", "d", "i", "r", "e", "c", "t">>
Str_user          == <<"u", "s", "e", "r">>

(***************************************************************************)
(* Users and their JSON form                                               *)
(***************************************************************************)

Acme      == <<"a", "c", "m", "e">>
Globex    == <<"g", "l", "o">>
Localhost == <<"l", "o", "c", "a", "l", "h", "o", "s", "t">>
Port      == <<"3", "0", "0", "0">>

Org(sub) == [subdomain |-> sub]

\* the store's "user: null"
NoUser == [id |-> <<>>, organizations |-> <<>>]

\* accounts known to the identity service, by their list of memberships
Users ==
  { [id |-> <<"1">>, organizations |-> <<>>],
    [id |-> <<"2">>, organizations |-> <<Org(Acme)>>],
    [id |-> <<"3">>, organizations |-> <<Org(Null)>>],
    [id |-> <<"4">>, organizations |-> <<Org(Acme), Org(Globex)>>],
    [id |-> <<"5">>, organizations |-> <<Org(Null), Org(Globex)>>] }

JsonString(s) == <<"\"">> \o s \o <<"\"">>

JsonOrg(o) ==
  <<"{">> \o JsonString(<<"s", "u", "b">>) \o <<":">>
  \o (IF o.subdomain = Null THEN <<"n", "u", "l", "l">> ELSE JsonString(o.subdomain))
  \o <<"}">>

RECURSIVE JsonOrgs(_)
JsonOrgs(os) ==
  IF os = <<>> THEN <<>>
  ELSE JsonOrg(Head(os)) \o (IF Len(os) > 1 THEN <<",">> ELSE <<>>) \o JsonOrgs(Tail(os))

\* JSON.stringify of a User, reduced to the fields this subsystem reads
JSONstringify(u) ==
  <<"{">> \o JsonString(<<"i", "d">>) \o <<":">> \o JsonString(u.id) \o <<",">>
  \o JsonString(<<"o", "r", "g", "s">>) \o <<":">> \o <<"[">> \o JsonOrgs(u.organizations)
  \o <<"]">> \o <<"}">>

\* JSON.parse: the user whose text this is, or a SyntaxError
JSONparse(s) ==
  IF \E u \in Users : JSONstringify(u) = s
  THEN [ok |-> TRUE, val |-> CHOOSE u \in Users : JSONstringify(u) = s]
  ELSE [ok |-> FALSE, val |-> NoUser]

(***************************************************************************)
(* Tenant Resolver (utils/tenant.ts).  A hostname is the list of its       *)
(* dot-separated labels: hostname.split('.')                               *)
(***************************************************************************)

ignoredSubdomains == {Localhost, <<"w", "w", "w">>, <<"1", "2", "7">>}

AllDigits(l) == l # <<>> /\ \A i \in 1..Len(l) : l[i] \in Digits

getCurrentSubdomain_listOnly(hostname) ==
  IF Len(hostname) >= 2 /\ Head(hostname) \notin ignoredSubdomains
  THEN Head(hostname)
  ELSE Null

getCurrentSubdomain(hostname) ==
  IF Len(hostname) >= 2
     /\ Head(hostname) \notin ignoredSubdomains
     /\ ~AllDigits(Head(hostname))
  THEN Head(hostname)
  ELSE Null

\* getBaseDomain as the pair (hostname labels, port) of "base:port"
getBaseDomain(hostname, port) ==
  IF Len(hostname) >= 2 /\ getCurrentSubdomain(hostname) # Null
  THEN [hostname |-> Tail(hostname), port |-> port]
  ELSE [hostname |-> hostname, port |-> port]

BaseHost   == <<Localhost>>
TenantHost(sub) == <<sub>> \o BaseHost
Hosts      == {BaseHost, TenantHost(Acme), TenantHost(Globex)}

(***************************************************************************)
(* Session Store (store/authStore.ts), one per origin                      *)
(***************************************************************************)

EmptySession ==
  [user |-> NoUser, token |-> Null, refreshToken |-> Null, isAuthenticated |-> FALSE]

setUser(s, u) == [s EXCEPT !.user = u, !.isAuthenticated = TRUE]

setTokens(s, t, rt) ==
  [s EXCEPT !.token = t, !.refreshToken = rt, !.isAuthenticated = TRUE]

logout_keepUser(s) ==
  [s EXCEPT !.token = Null, !.refreshToken = Null, !.isAuthenticated = FALSE]

logout_keepAuth(s) ==
  [s EXCEPT !.user = NoUser, !.token = Null, !.refreshToken = Null]

logout(s) ==
  [s EXCEPT !.user = NoUser, !.token = Null, !.refreshToken = Null,
            !.isAuthenticated = FALSE]

onRehydrateStorage(s) ==
  IF s.token # Null THEN [s EXCEPT !.isAuthenticated = TRUE] ELSE s

\* ProtectedRoute lets the view render
canEnter_flagOnly(s) == s.isAuthenticated

canEnter(s) == ~(~s.isAuthenticated /\ s.token = Null)

(***************************************************************************)
(* Paths and URLs                                                          *)
(***************************************************************************)

P_login    == <<"/", "l", "o", "g", "i", "n">>
P_home     == <<"/", "h", "o", "m", "e">>
P_test     == <<"/", "t", "e", "s", "t">>
P_transfer == <<"/", "a", "u", "t", "h", "/", "t", "r", "a", "n", "s", "f", "e", "r">>
P_select   == <<"/", "s", "e", "l", "e", "c", "t", "-", "o", "r", "g", "a", "n", "i", "z", "a",
                "t", "i", "o", "n">>

Url(h, p, q) == [hostname |-> h, path |-> p, query |-> q]

\* routes that are not wrapped in ProtectedRoute
PublicPaths == {P_login, P_transfer, P_select}

(***************************************************************************)
(* Bounds                                                                  *)
(***************************************************************************)

\* requests issued through the Gateway Client in one behaviour
MaxReq == 2
\* URLs typed or followed by the user in one behaviour
MaxLoads == 1
\* session-history entries the browser retains
MaxHist == 2

(***************************************************************************)
(* Values of the environment                                               *)
(***************************************************************************)

\* token pairs the identity service issues (login and refresh)
Pairs ==
  { [access |-> <<"a", "+", "1">>, refresh |-> <<"r", "%", "2">>],
    [access |-> <<"b", "&", "=">>, refresh |-> <<"s", " ", "/">>] }

NoPair == [access |-> Null, refresh |-> Null]

\* HTTP outcomes of a backend call: success, unauthorized, any other failure
Statuses == {200, 401, 500}

(***************************************************************************)
(* State                                                                   *)
(***************************************************************************)

VARIABLES
  loc,        \* window.location of the tab: hostname, path, query string
  history,    \* session history of the tab, the current entry last
  store,      \* store[h]: the persisted Session Store of origin h
  subctx,     \* subctx[h]: localStorage 'current_subdomain' of origin h
  reqs,       \* the requests sent through apiClient by the current page
  last,       \* the request settled most recently, as it was handed back
  transfer,   \* the AuthTransfer page: phase of its effect and its timer
  toast,      \* the message shown to the user
  event,      \* the last operation, its request, the navigation it made
  sent,       \* the TransferPayload of the last transfer URL that was built
  consumed,   \* transfer URLs whose tokens were persisted, per origin
  loads       \* number of URLs the user has opened

vars == <<loc, history, store, subctx, reqs, last, transfer, toast, event, sent, consumed,
          loads>>

ReqIds == 1..MaxReq

NoOut == [type |-> "none", src |-> "none", status |-> 0]

FreeReq ==
  [st |-> "free", kind |-> "none", who |-> NoUser, retry |-> FALSE,
   auth |-> Null, tenant |-> Null, rtok |-> Null, nSend |-> 0, nRefresh |-> 0,
   got |-> NoPair, out |-> NoOut]

NoToast == [kind |-> "none", src |-> "none", status |-> 0]

NoTransfer == [phase |-> "idle", redirect |-> Null]

\* nav: "none", "push" or "replace" (react-router), "load" (a full page load)
Ev(op, r, nav) == [op |-> op, req |-> r, nav |-> nav]

\* the parameters a transfer URL is built from; udata is the value of its user
\* parameter
NoPayload ==
  [token |-> Null, refreshToken |-> Null, redirect |-> Null, user |-> NoUser,
   udata |-> Null]

\* the browser keeps the newest MaxHist entries
Cap(h) == IF Len(h) > MaxHist THEN SubSeq(h, Len(h) - MaxHist + 1, Len(h)) ELSE h

Push(h, u) == Cap(Append(h, u))

Replace(h, u) == [h EXCEPT ![Len(h)] = u]

\* a page load abandons the work of the page it leaves
Abandon(rq) ==
  [r \in ReqIds |->
     IF rq[r].st \in {"sent", "refreshing", "resent"}
     THEN [FreeReq EXCEPT !.st = "abandoned"] ELSE rq[r]]

\* the route rendered for a path: ProtectedRoute sends an unauthenticated
\* visitor of a protected path to /login (replace)
Routed(p, s) == IF p \notin PublicPaths /\ ~canEnter(s) THEN P_login ELSE p

(***************************************************************************)
(* Navigation                                                              *)
(***************************************************************************)

\* window.location.href = u (or a URL typed by the user): a full page load.
\* st and rq are the stores and requests as the running handler leaves them.
PageLoad(u, st, rq) ==
  LET st2 == [st EXCEPT ![u.hostname] = onRehydrateStorage(@)]
      p   == Routed(u.path, st2[u.hostname])
      h1  == IF u = loc THEN history ELSE Push(history, u)
      u2  == IF p = u.path THEN u ELSE Url(u.hostname, p, <<>>)
  IN  /\ store' = st2
      /\ reqs' = Abandon(rq)
      /\ toast' = NoToast
      /\ loc' = u2
      /\ history' = Replace(h1, u2)
      /\ transfer' = IF u2.path = P_transfer
                     THEN [phase |-> "arrived", redirect |-> Null]
                     ELSE NoTransfer

\* navigate(p) / navigate(p, {replace: true}) of react-router, in the page
Navigate(p, replace, st) ==
  LET u  == Url(loc.hostname, p, <<>>)
      h1 == IF replace THEN Replace(history, u) ELSE Push(history, u)
      p2 == Routed(p, st[loc.hostname])
      u2 == Url(loc.hostname, p2, <<>>)
  IN  /\ loc' = u2
      /\ history' = Replace(h1, u2)

(***************************************************************************)
(* Transfer Handoff, sender side (utils/tenant.ts)                         *)
(***************************************************************************)

redirectToSubdomain_plain(subdomain, path, transferAuth, s, hostname) ==
  LET base == getBaseDomain(hostname, Port)
  IN  Url(IF subdomain # Null THEN <<subdomain>> \o base.hostname ELSE base.hostname,
          path, <<>>)

\* the URL redirectToSubdomain assigns to window.location.href
redirectToSubdomain(subdomain, path, transferAuth, s, hostname) ==
  LET base         == getBaseDomain(hostname, Port)
      targetDomain == IF subdomain # Null THEN <<subdomain>> \o base.hostname
                      ELSE base.hostname
      userParam    == IF s.user # NoUser
                      THEN encodeURIComponent(JSONstringify(s.user)) ELSE <<>>
      params       == << <<Str_token, s.token>>,
                         <<Str_refresh_token, s.refreshToken>>,
                         <<Str_redirect, path>> >>
                      \o (IF userParam # <<>> THEN << <<Str_user, userParam>> >> ELSE <<>>)
  IN  IF transferAuth /\ s.token # Null /\ s.refreshToken # Null
      THEN Url(targetDomain, P_transfer, ParamsToString(params))
      ELSE Url(targetDomain, path, <<>>)

\* the parameters redirectToSubdomain puts in the transfer URL
PayloadOf(s, path) ==
  [token |-> s.token, refreshToken |-> s.refreshToken, redirect |-> path,
   user  |-> s.user,
   udata |-> IF s.user # NoUser THEN encodeURIComponent(JSONstringify(s.user)) ELSE <<>>]

(***************************************************************************)
(* Gateway Client (api/client.ts)                                          *)
(***************************************************************************)

requestInterceptor_noTenant(r, s, hostname) ==
  [r EXCEPT !.auth = IF s.token # Null THEN s.token ELSE @]

\* request interceptor: runs on every send, re-issues included
requestInterceptor(r, s, hostname) ==
  LET subdomain == getCurrentSubdomain(hostname)
  IN  [r EXCEPT !.auth   = IF s.token # Null THEN s.token ELSE @,
                !.tenant = IF subdomain # Null THEN subdomain ELSE @]

FreeIds == {r \in ReqIds : reqs[r].st = "free"}

\* request ids are handed out in increasing order
NextId(rq) == CHOOSE r \in ReqIds :
                 rq[r].st = "free" /\ \A q \in ReqIds : rq[q].st = "free" => r <= q

InFlight(r) == reqs[r].st \in {"sent", "refreshing", "resent"}

\* apiClient.get / apiClient.post from the current page
SendVia(rq, kind, who, s, hostname) ==
  [rq EXCEPT ![NextId(rq)] =
     requestInterceptor([FreeReq EXCEPT !.st = "sent", !.kind = kind, !.who = who,
                                        !.nSend = 1], s, hostname)]

LoginUrl == Url(loc.hostname, P_login, <<>>)

shouldRefresh_coalesced(status, rq) ==
  status = 401 /\ ~rq.retry /\ \A q \in ReqIds : reqs[q].st # "refreshing"

shouldRefresh_always(status, rq) == status = 401

\* error.response?.status === 401 && !originalRequest._retry
shouldRefresh(status, rq) == status = 401 /\ ~rq.retry

refreshRejection_original(error, refreshError) == error

\* what the catch block of the refresh call rejects with
refreshRejection(error, refreshError) == refreshError

(***************************************************************************)
(* Login Orchestrator (hooks/useAuth.ts, loginMutation.onSuccess)          *)
(***************************************************************************)

hasAccess(userData, currentSubdomain) ==
  \E i \in 1..Len(userData.organizations) :
     userData.organizations[i].subdomain = currentSubdomain

LoginDecision_selector(userData, hostname) ==
  LET currentSubdomain == getCurrentSubdomain(hostname)
      orgs == userData.organizations
      nav(p)  == [act |-> "navigate", sub |-> Null, path |-> p, ctx |-> FALSE]
      red(sd) == [act |-> "redirect", sub |-> sd, path |-> P_home, ctx |-> FALSE]
  IN  IF Len(orgs) > 0
      THEN IF currentSubdomain # Null
           THEN IF hasAccess(userData, currentSubdomain)
                THEN [act |-> "navigate", sub |-> Null, path |-> P_home, ctx |-> TRUE]
                ELSE IF orgs[1].subdomain # Null THEN red(orgs[1].subdomain)
                     ELSE nav(P_home)
           ELSE nav(P_select)
      ELSE nav(P_home)

LoginDecision_always(userData, hostname) ==
  LET currentSubdomain == getCurrentSubdomain(hostname)
      orgs == userData.organizations
      nav(p)  == [act |-> "navigate", sub |-> Null, path |-> p, ctx |-> FALSE]
      red(sd) == [act |-> "redirect", sub |-> sd, path |-> P_home, ctx |-> FALSE]
  IN  IF Len(orgs) > 0
      THEN IF currentSubdomain # Null
           THEN IF orgs[1].subdomain # Null THEN red(orgs[1].subdomain)
                ELSE nav(P_home)
           ELSE IF Len(orgs) = 1
                THEN IF orgs[1].subdomain # Null THEN red(orgs[1].subdomain)
                     ELSE nav(P_home)
                ELSE nav(P_select)
      ELSE nav(P_select)

LoginDecision_firstOrg(userData, hostname) ==
  LET currentSubdomain == getCurrentSubdomain(hostname)
      orgs == userData.organizations
      nav(p)  == [act |-> "navigate", sub |-> Null, path |-> p, ctx |-> FALSE]
      red(sd) == [act |-> "redirect", sub |-> sd, path |-> P_home, ctx |-> FALSE]
  IN  IF Len(orgs) > 0
      THEN IF currentSubdomain # Null
           THEN IF hasAccess(userData, currentSubdomain)
                THEN [act |-> "navigate", sub |-> Null, path |-> P_home, ctx |-> TRUE]
                ELSE IF orgs[1].subdomain # Null THEN red(orgs[1].subdomain)
                     ELSE nav(P_home)
           ELSE IF orgs[1].subdomain # Null THEN red(orgs[1].subdomain)
                ELSE nav(P_home)
      ELSE nav(P_home)

\* what onSuccess does after setUser: an in-app navigate or a redirect to an
\* organization's subdomain, and whether it stores the subdomain context
LoginDecision(userData, hostname) ==
  LET currentSubdomain == getCurrentSubdomain(hostname)
      orgs == userData.organizations
      nav(p)  == [act |-> "navigate", sub |-> Null, path |-> p, ctx |-> FALSE]
      red(sd) == [act |-> "redirect", sub |-> sd, path |-> P_home, ctx |-> FALSE]
  IN  IF Len(orgs) > 0
      THEN IF currentSubdomain # Null
           THEN IF hasAccess(userData, currentSubdomain)
                THEN [act |-> "navigate", sub |-> Null, path |-> P_home, ctx |-> TRUE]
                ELSE IF orgs[1].subdomain # Null THEN red(orgs[1].subdomain)
                     ELSE nav(P_home)
           ELSE IF Len(orgs) = 1
                THEN IF orgs[1].subdomain # Null THEN red(orgs[1].subdomain)
                     ELSE nav(P_home)
                ELSE nav(P_select)
      ELSE nav(P_home)

\* request r as it is handed back to its caller, and the table without it
Settled(r, out) ==
  [reqs[r] EXCEPT !.st = "done", !.retry = (@ \/ out.status = 401), !.out = out]

Done(r) == [reqs EXCEPT ![r] = [FreeReq EXCEPT !.st = "done"]]

\* The caller's continuation once the interceptors have settled request r with
\* outcome out.  st is the stores as the interceptor leaves them; reload says
\* that the interceptor assigned window.location.href = '/login'.  data is the
\* response body of a success.
Settle(op, r, out, data, st, reload) ==
  LET h    == loc.hostname
      kind == reqs[r].kind
      rq   == Done(r)
      err  == [kind |-> "error", src |-> out.src, status |-> out.status]
  IN  /\ last' = Settled(r, out)
      /\ IF kind = "logout"
         THEN \* useAuth.logout, after the await: the finally block runs whether
              \* the call succeeded or not
              LET st1 == [st EXCEPT ![h] = logout(@)]
                  u   == redirectToSubdomain(Null, P_login, FALSE, st1[h], h)
              IN  /\ subctx' = [subctx EXCEPT ![h] = Null]
                  /\ sent' = sent
                  /\ IF getCurrentSubdomain(h) # Null
                     THEN \* the last assignment to window.location.href wins
                          /\ PageLoad(u, st1, rq)
                          /\ event' = Ev(op, r, "load")
                     ELSE IF reload
                     THEN /\ PageLoad(LoginUrl, st1, rq)
                          /\ event' = Ev(op, r, "load")
                     ELSE /\ Navigate(P_login, FALSE, st1)
                          /\ store' = st1
                          /\ reqs' = rq
                          /\ toast' = [kind |-> "success", src |-> "none", status |-> 0]
                          /\ transfer' = NoTransfer
                          /\ event' = Ev(op, r, "push")
         ELSE IF out.type = "ok" /\ kind = "login"
         THEN \* onSuccess: setTokens, then authApi.getCurrentUser()
              LET st1 == [st EXCEPT ![h] = setTokens(@, data.access, data.refresh)]
              IN  /\ store' = st1
                  /\ reqs' = SendVia(rq, "profile", reqs[r].who, st1[h], h)
                  /\ event' = Ev(op, r, "none")
                  /\ UNCHANGED <<loc, history, transfer, toast, subctx, sent>>
         ELSE IF out.type = "ok" /\ kind = "profile"
         THEN \* onSuccess continues: setUser, toast, multi-tenant redirect
              LET userData == reqs[r].who
                  st1 == [st EXCEPT ![h] = setUser(@, userData)]
                  d   == LoginDecision(userData, h)
                  u   == redirectToSubdomain(d.sub, d.path, TRUE, st1[h], h)
              IN  /\ subctx' = IF d.ctx
                               THEN [subctx EXCEPT ![h] = getCurrentSubdomain(h)]
                               ELSE subctx
                  /\ IF d.act = "redirect"
                     THEN /\ PageLoad(u, st1, rq)
                          /\ sent' = IF u.path = P_transfer
                                     THEN PayloadOf(st1[h], d.path) ELSE sent
                          /\ event' = Ev(op, r, "load")
                     ELSE /\ Navigate(d.path, FALSE, st1)
                          /\ store' = st1
                          /\ reqs' = rq
                          /\ toast' = [kind |-> "success", src |-> "none", status |-> 0]
                          /\ transfer' = NoTransfer
                          /\ sent' = sent
                          /\ event' = Ev(op, r, "push")
         ELSE /\ UNCHANGED <<subctx, sent>>
              /\ IF reload
                 THEN /\ PageLoad(LoginUrl, st, rq)
                      /\ event' = Ev(op, r, "load")
                 ELSE /\ store' = st
                      /\ reqs' = rq
                      /\ toast' = IF out.type = "err" /\ kind \in {"login", "profile"}
                                  THEN err ELSE toast
                      /\ event' = Ev(op, r, "none")
                      /\ UNCHANGED <<loc, history, transfer>>

Attempt(r) == IF reqs[r].st = "sent" THEN "first" ELSE "reissue"

\* a pending login keeps one request id for its profile fetch
ReservedIds == IF \E r \in ReqIds : reqs[r].kind = "login" /\ InFlight(r) THEN 1 ELSE 0

\* a page other than AuthTransfer calls the backend
SendApi ==
  /\ loc.path # P_transfer
  /\ Cardinality(FreeIds) > ReservedIds
  /\ reqs' = SendVia(reqs, "api", NoUser, store[loc.hostname], loc.hostname)
  /\ event' = Ev("SendApi", NextId(reqs), "none")
  /\ UNCHANGED <<loc, history, store, subctx, last, transfer, toast, sent, consumed, loads>>

\* LoginForm.onSubmit: loginMutation.mutate -> authApi.login
SubmitLogin(u) ==
  /\ loc.path = P_login
  /\ Cardinality(FreeIds) >= 2
  /\ \A r \in ReqIds : reqs[r].kind \in {"login", "profile"} => ~InFlight(r)
  /\ reqs' = SendVia(reqs, "login", u, store[loc.hostname], loc.hostname)
  /\ event' = Ev("SubmitLogin", NextId(reqs), "none")
  /\ UNCHANGED <<loc, history, store, subctx, last, transfer, toast, sent, consumed, loads>>

\* the logout button of a protected page: useAuth.logout -> authApi.logout
LogoutClick ==
  /\ loc.path \notin PublicPaths
  /\ Cardinality(FreeIds) > ReservedIds
  /\ \A r \in ReqIds : reqs[r].kind = "logout" => ~InFlight(r)
  /\ reqs' = SendVia(reqs, "logout", NoUser, store[loc.hostname], loc.hostname)
  /\ event' = Ev("LogoutClick", NextId(reqs), "none")
  /\ UNCHANGED <<loc, history, store, subctx, last, transfer, toast, sent, consumed, loads>>

\* response interceptor, success arm: the response is handed to the caller
RespondOk(r, data) ==
  /\ reqs[r].st \in {"sent", "resent"}
  /\ (reqs[r].kind = "login") <=> (data # NoPair)
  /\ Settle("RespondOk", r, [type |-> "ok", src |-> Attempt(r), status |-> 200], data,
            store, FALSE)
  /\ UNCHANGED <<consumed, loads>>

\* response interceptor, error arm
RespondError(r, status) ==
  /\ reqs[r].st \in {"sent", "resent"}
  /\ LET h     == loc.hostname
         error == [type |-> "err", src |-> Attempt(r), status |-> status]
     IN  IF shouldRefresh(status, reqs[r])
         THEN LET refreshToken == store[h].refreshToken
              IN  IF refreshToken # Null
                  THEN \* axios.post(.../api/v1/auth/refresh) is now awaited
                       /\ reqs' = [reqs EXCEPT ![r].retry = TRUE,
                                               ![r].st = "refreshing",
                                               ![r].rtok = refreshToken,
                                               ![r].nRefresh = @ + 1]
                       /\ event' = Ev("RespondError", r, "none")
                       /\ UNCHANGED <<loc, history, store, subctx, transfer, toast, last,
                                      sent>>
                  ELSE \* logout(); window.location.href = '/login'; reject(error)
                       Settle("RespondError", r, error, NoPair,
                              [store EXCEPT ![h] = logout(@)], TRUE)
         ELSE Settle("RespondError", r, error, NoPair, store, FALSE)
  /\ UNCHANGED <<consumed, loads>>

RefreshOk_noPersist(r, pair) ==
  /\ reqs[r].st = "refreshing"
  /\ LET h  == loc.hostname
         r1 == [reqs[r] EXCEPT !.auth = pair.access, !.got = pair,
                               !.st = "resent", !.nSend = @ + 1]
     IN  /\ store' = store
         /\ reqs' = [reqs EXCEPT ![r] = requestInterceptor(r1, store[h], h)]
  /\ event' = Ev("RefreshOk", r, "none")
  /\ UNCHANGED <<loc, history, subctx, transfer, toast, last, sent, consumed, loads>>

\* the refresh call succeeds: setTokens, new Authorization header, re-issue
RefreshOk(r, pair) ==
  /\ reqs[r].st = "refreshing"
  /\ LET h   == loc.hostname
         st1 == [store EXCEPT ![h] = setTokens(@, pair.access, pair.refresh)]
         r1  == [reqs[r] EXCEPT !.auth = pair.access, !.got = pair,
                                !.st = "resent", !.nSend = @ + 1]
     IN  /\ store' = st1
         /\ reqs' = [reqs EXCEPT ![r] = requestInterceptor(r1, st1[h], h)]
  /\ event' = Ev("RefreshOk", r, "none")
  /\ UNCHANGED <<loc, history, subctx, transfer, toast, last, sent, consumed, loads>>

\* the refresh call fails: logout(); window.location.href = '/login';
\* reject(refreshError)
RefreshFail(r, status) ==
  /\ reqs[r].st = "refreshing"
  /\ LET h            == loc.hostname
         error        == [type |-> "err", src |-> "first", status |-> 401]
         refreshError == [type |-> "err", src |-> "refresh", status |-> status]
     IN  Settle("RefreshFail", r, refreshRejection(error, refreshError), NoPair,
                [store EXCEPT ![h] = logout(@)], TRUE)
  /\ UNCHANGED <<consumed, loads>>

(***************************************************************************)
(* Transfer Handoff, receiver side (pages/AuthTransfer.tsx)                *)
(***************************************************************************)

missingTokens_both(token, refreshToken) == token = Null /\ refreshToken = Null

\* !token || !refreshToken
missingTokens(token, refreshToken) == token = Null \/ refreshToken = Null

\* the effect of the AuthTransfer page, up to the setTimeout
TransferDecode ==
  /\ transfer.phase = "arrived"
  /\ LET h            == loc.hostname
         token        == SearchParamsGet(loc.query, Str_token)
         refreshToken == SearchParamsGet(loc.query, Str_refresh_token)
         userData     == SearchParamsGet(loc.query, Str_user)
         param        == SearchParamsGet(loc.query, Str_redirect)
         redirect     == IF param # Null THEN param ELSE P_home
     IN  IF missingTokens(token, refreshToken)
         THEN /\ Navigate(P_login, FALSE, store)
              /\ transfer' = [phase |-> "failed", redirect |-> Null]
              /\ event' = Ev("TransferDecode", 0, "push")
              /\ UNCHANGED <<store, consumed>>
         ELSE LET s1     == setTokens(store[h], token, refreshToken)
                  text   == decodeURIComponent(userData)
                  parsed == JSONparse(text.val)
                  s2     == IF userData # Null /\ text.ok /\ parsed.ok
                            THEN setUser(s1, parsed.val) ELSE s1
              IN  /\ store' = [store EXCEPT ![h] = s2]
                  /\ transfer' = [phase |-> "timer", redirect |-> redirect]
                  /\ consumed' = consumed \cup
                        {[hostname |-> h, query |-> loc.query, payload |-> sent]}
                  /\ event' = Ev("TransferDecode", 0, "none")
                  /\ UNCHANGED <<loc, history>>
  /\ UNCHANGED <<subctx, reqs, last, toast, sent, loads>>

\* the timer of the effect: navigate(redirect, { replace: true })
TransferTimer ==
  /\ transfer.phase = "timer"
  /\ Navigate(transfer.redirect, TRUE, store)
  /\ transfer' = [phase |-> "done", redirect |-> transfer.redirect]
  /\ event' = Ev("TransferTimer", 0, "replace")
  /\ UNCHANGED <<store, subctx, reqs, last, toast, sent, consumed, loads>>

(***************************************************************************)
(* Organization Selector (SelectOrganization)                              *)
(***************************************************************************)

\* the page renders its buttons only for a user with several memberships
SelectorShown ==
  /\ loc.path = P_select
  /\ store[loc.hostname].user # NoUser
  /\ Len(store[loc.hostname].user.organizations) > 1

\* the effect of the page: without a user to /login, with no membership to
\* /home, with a single membership to that organization
SelectorEffect ==
  /\ loc.path = P_select
  /\ ~SelectorShown
  /\ LET h    == loc.hostname
         user == store[h].user
         org  == user.organizations[1]
         u    == redirectToSubdomain(org.subdomain, P_home, TRUE, store[h], h)
     IN  IF user # NoUser /\ Len(user.organizations) = 1 /\ org.subdomain # Null
         THEN /\ PageLoad(u, store, reqs)
              /\ sent' = IF u.path = P_transfer THEN PayloadOf(store[h], P_home) ELSE sent
              /\ event' = Ev("SelectorEffect", 0, "load")
         ELSE /\ Navigate(IF user = NoUser THEN P_login ELSE P_home, FALSE, store)
              /\ event' = Ev("SelectorEffect", 0, "push")
              /\ UNCHANGED <<store, reqs, toast, transfer, sent>>
  /\ UNCHANGED <<subctx, last, consumed, loads>>

handleSelectOrganization_stay(i) ==
  /\ SelectorShown
  /\ i \in 1..Len(store[loc.hostname].user.organizations)
  /\ Navigate(P_home, FALSE, store)
  /\ event' = Ev("handleSelectOrganization", i, "push")
  /\ UNCHANGED <<store, reqs, toast, transfer, sent, subctx, last, consumed, loads>>

\* a click on the i-th membership
handleSelectOrganization(i) ==
  /\ SelectorShown
  /\ i \in 1..Len(store[loc.hostname].user.organizations)
  /\ LET h         == loc.hostname
         subdomain == store[h].user.organizations[i].subdomain
         u         == redirectToSubdomain(subdomain, P_home, TRUE, store[h], h)
     IN  IF subdomain # Null
         THEN /\ PageLoad(u, store, reqs)
              /\ sent' = IF u.path = P_transfer THEN PayloadOf(store[h], P_home) ELSE sent
              /\ event' = Ev("handleSelectOrganization", i, "load")
         ELSE /\ Navigate(P_home, FALSE, store)
              /\ event' = Ev("handleSelectOrganization", i, "push")
              /\ UNCHANGED <<store, reqs, toast, transfer, sent>>
  /\ UNCHANGED <<subctx, last, consumed, loads>>

\* "Skip for now"
SkipSelection ==
  /\ SelectorShown
  /\ Navigate(P_home, FALSE, store)
  /\ event' = Ev("SkipSelection", 0, "push")
  /\ UNCHANGED <<store, reqs, toast, transfer, sent, subctx, last, consumed, loads>>

(***************************************************************************)
(* The user at the address bar                                             *)
(***************************************************************************)

Opt(name, v) == IF v = Null THEN <<>> ELSE << <<name, v>> >>

\* the query string of a transfer URL with the parameters of payload pl
QueryOf(pl) ==
  ParamsToString(Opt(Str_token, pl.token) \o Opt(Str_refresh_token, pl.refreshToken)
                 \o Opt(Str_redirect, pl.redirect) \o Opt(Str_user, pl.udata))

\* parameters of the transfer URLs a user may open: with both tokens (with or
\* without a redirect path, the user snapshot absent, well-formed or not) and
\* with a token missing (with or without a user snapshot)
TransferInputs ==
  LET pr == CHOOSE x \in Pairs : x.access[1] = "a"
      us == CHOOSE u \in Users : u.organizations = <<Org(Acme)>>
      P(t, rt, rd, ud) ==
        [token |-> t, refreshToken |-> rt, redirect |-> rd,
         user  |-> IF ud = <<"u">> THEN us ELSE NoUser,
         udata |-> IF ud = <<"u">> THEN encodeURIComponent(JSONstringify(us)) ELSE ud]
  IN  { P(pr.access, pr.refresh, rd, ud) :
          rd \in {Null, P_test}, ud \in {Null, <<"u">>, <<"%", "7">>} }
      \cup
      { P(tr[1], tr[2], Null, ud) :
          tr \in {<<pr.access, Null>>, <<Null, pr.refresh>>, <<Null, Null>>},
          ud \in {Null, <<"u">>} }

\* the origins whose URLs the user types; other origins are reached by redirect
OpenHosts == {BaseHost, TenantHost(Acme)}

OpenPage(h, p) ==
  /\ loads < MaxLoads
  /\ loads' = loads + 1
  /\ PageLoad(Url(h, p, <<>>), store, reqs)
  /\ event' = Ev("OpenPage", 0, "load")
  /\ UNCHANGED <<subctx, last, sent, consumed>>

OpenTransferUrl(h, pl) ==
  /\ loads < MaxLoads
  /\ loads' = loads + 1
  /\ PageLoad(Url(h, P_transfer, QueryOf(pl)), store, reqs)
  /\ sent' = pl
  /\ event' = Ev("OpenTransferUrl", 0, "load")
  /\ UNCHANGED <<subctx, last, consumed>>

\* a transfer URL that was decoded before is opened again
ReplayTransferUrl(c) ==
  /\ loads < MaxLoads
  /\ loads' = loads + 1
  /\ c \in consumed
  /\ PageLoad(Url(c.hostname, P_transfer, c.query), store, reqs)
  /\ sent' = c.payload
  /\ event' = Ev("ReplayTransferUrl", 0, "load")
  /\ UNCHANGED <<subctx, last, consumed>>

(***************************************************************************)
(* Specification                                                           *)
(***************************************************************************)

Init ==
  /\ loc = Url(BaseHost, P_login, <<>>)
  /\ history = <<Url(BaseHost, P_login, <<>>)>>
  /\ store = [h \in Hosts |-> EmptySession]
  /\ subctx = [h \in Hosts |-> Null]
  /\ reqs = [r \in ReqIds |-> FreeReq]
  /\ last = FreeReq
  /\ transfer = NoTransfer
  /\ toast = NoToast
  /\ event = Ev("Init", 0, "none")
  /\ sent = NoPayload
  /\ consumed = {}
  /\ loads = 0

Next ==
  \/ SendApi
  \/ \E u \in Users : SubmitLogin(u)
  \/ \E r \in ReqIds, data \in Pairs \cup {NoPair} : RespondOk(r, data)
  \/ \E r \in ReqIds, status \in Statuses \ {200} : RespondError(r, status)
  \/ \E r \in ReqIds, pair \in Pairs : RefreshOk(r, pair)
  \/ \E r \in ReqIds, status \in Statuses \ {200} : RefreshFail(r, status)
  \/ TransferDecode
  \/ TransferTimer
  \/ \E h \in OpenHosts, p \in {P_login, P_home, P_select} : OpenPage(h, p)
  \/ \E pl \in TransferInputs : OpenTransferUrl(TenantHost(Acme), pl)
  \/ \E c \in consumed : ReplayTransferUrl(c)
  \/ LogoutClick
  \/ SelectorEffect
  \/ \E i \in 1..Len(store[loc.hostname].user.organizations) : handleSelectOrganization(i)
  \/ SkipSelection

Spec == Init /\ [][Next]_vars

(***************************************************************************)
(* The transfer round trip on its own: an authenticated origin, any caller *)
(* of redirectToSubdomain, any redirect path                               *)
(***************************************************************************)

Paths ==
  { P_home, P_test, <<"/", "a", " ", "b">>,
    <<"/", "q", "?", "x", "=", "1", "&", "y", "=", "%">> }

\* a session left on an origin by an earlier login
StaleSession ==
  setUser(setTokens(EmptySession, <<"o", "l", "d">>, <<"o", "l", "d", "r">>),
          CHOOSE u \in Users : u.organizations = <<Org(Null), Org(Globex)>>)

InitTransfer ==
  \E h0 \in {BaseHost, TenantHost(Globex)}, pr \in Pairs, u \in Users \cup {NoUser},
     stale \in BOOLEAN :
    LET s0 == setTokens(EmptySession, pr.access, pr.refresh)
        s1 == IF u = NoUser THEN s0 ELSE setUser(s0, u)
    IN  /\ loc = Url(h0, P_home, <<>>)
        /\ history = <<Url(h0, P_home, <<>>)>>
        /\ store = [h \in Hosts |-> IF h = h0 THEN s1
                                    ELSE IF stale THEN StaleSession ELSE EmptySession]
        /\ subctx = [h \in Hosts |-> Null]
        /\ reqs = [r \in ReqIds |-> FreeReq]
        /\ last = FreeReq
        /\ transfer = NoTransfer
        /\ toast = NoToast
        /\ event = Ev("Init", 0, "none")
        /\ sent = NoPayload
        /\ consumed = {}
        /\ loads = 0

\* redirectToSubdomain(subdomain, path) called on the current page
RedirectTo(subdomain, path) ==
  /\ loads < MaxLoads
  /\ loads' = loads + 1
  /\ transfer.phase \notin {"arrived", "timer"}
  /\ LET h == loc.hostname
         u == redirectToSubdomain(subdomain, path, TRUE, store[h], h)
     IN  /\ PageLoad(u, store, reqs)
         /\ sent' = IF u.path = P_transfer THEN PayloadOf(store[h], path) ELSE sent
  /\ event' = Ev("RedirectTo", 0, "load")
  /\ UNCHANGED <<subctx, last, consumed>>

NextTransfer ==
  \/ \E sd \in {Acme, Globex, Null}, p \in Paths : RedirectTo(sd, p)
  \/ \E pl \in TransferInputs : OpenTransferUrl(TenantHost(Acme), pl)
  \/ TransferDecode
  \/ TransferTimer

SpecTransfer == InitTransfer /\ [][NextTransfer]_vars

(***************************************************************************)
(* The login hand-off with a backend that answers every call: no request   *)
(* fails, the user opens no other URL, effects and timers run              *)
(***************************************************************************)

\* the login page of the base origin; the tenant origins are fresh or still
\* hold the session of an earlier visit
InitHandoff ==
  \E stale \in BOOLEAN :
    /\ loc = Url(BaseHost, P_login, <<>>)
    /\ history = <<Url(BaseHost, P_login, <<>>)>>
    /\ store = [h \in Hosts |-> IF h # BaseHost /\ stale THEN StaleSession
                                ELSE EmptySession]
    /\ subctx = [h \in Hosts |-> Null]
    /\ reqs = [r \in ReqIds |-> FreeReq]
    /\ last = FreeReq
    /\ transfer = NoTransfer
    /\ toast = NoToast
    /\ event = Ev("Init", 0, "none")
    /\ sent = NoPayload
    /\ consumed = {}
    /\ loads = 0

NextHandoff ==
  \/ SendApi
  \/ \E u \in Users : SubmitLogin(u)
  \/ \E r \in ReqIds, data \in Pairs \cup {NoPair} : RespondOk(r, data)
  \/ TransferDecode
  \/ TransferTimer
  \/ \E i \in 1..Len(store[loc.hostname].user.organizations) : handleSelectOrganization(i)
  \/ SkipSelection

\* The steps of RespondOk(r, _), TransferDecode and TransferTimer, told by the
\* guard of the action and the event it leaves (each of them changes event):
\* weak fairness is asked of these, so that the enabling condition is the guard
\* alone.
Answered(r) ==
  /\ reqs[r].st \in {"sent", "resent"}
  /\ event' \in {Ev("RespondOk", r, nav) : nav \in {"none", "push", "load"}}

Decoded ==
  /\ transfer.phase = "arrived"
  /\ event' \in {Ev("TransferDecode", 0, nav) : nav \in {"none", "push"}}

TimerFired ==
  /\ transfer.phase = "timer"
  /\ event' = Ev("TransferTimer", 0, "replace")

\* the backend answers every request, React runs the effect of a mounted
\* page, and a timer that was set fires
FairHandoff ==
  /\ \A r \in ReqIds : WF_event(Answered(r))
  /\ WF_event(Decoded)
  /\ WF_event(TimerFired)

SpecHandoff == InitHandoff /\ [][NextHandoff]_vars /\ FairHandoff

(***************************************************************************)
(* The Route Guard on its own: any persisted record, any route             *)
(***************************************************************************)

GuardTokens == {Null, <<"a", "+", "1">>}

InitGuard ==
  \E h0 \in OpenHosts, t \in GuardTokens, rt \in {Null, <<"r", "%", "2">>},
     a \in BOOLEAN, u \in Users \cup {NoUser} :
    /\ loc = Url(h0, P_login, <<>>)
    /\ history = <<Url(h0, P_login, <<>>)>>
    /\ store = [h \in Hosts |->
                  IF h = h0
                  THEN [user |-> u, token |-> t, refreshToken |-> rt,
                        isAuthenticated |-> a]
                  ELSE EmptySession]
    /\ subctx = [h \in Hosts |-> Null]
    /\ reqs = [r \in ReqIds |-> FreeReq]
    /\ last = FreeReq
    /\ transfer = NoTransfer
    /\ toast = NoToast
    /\ event = Ev("Init", 0, "none")
    /\ sent = NoPayload
    /\ consumed = {}
    /\ loads = 0

\* a link of the application is followed: the router renders the route of p,
\* through ProtectedRoute when p is a protected path
Visit(p) ==
  /\ Navigate(p, FALSE, store)
  /\ event' = Ev("Visit", 0, IF Routed(p, store[loc.hostname]) = p THEN "push"
                             ELSE "replace")
  /\ UNCHANGED <<store, subctx, reqs, last, transfer, toast, sent, consumed, loads>>

NextGuard == \E p \in {P_login, P_home, P_test} : Visit(p)

SpecGuard == InitGuard /\ [][NextGuard]_vars

(***************************************************************************)
(* The Tenant Resolver on its own: a page served under any hostname        *)
(***************************************************************************)

Www     == <<"w", "w", "w">>
Example == <<"e", "x", "a", "m", "p", "l", "e">>
Com     == <<"c", "o", "m">>

\* labels a hostname is made of: tenant ids, reserved labels, numeric labels,
\* a label that only starts with a digit, a label in another case
HostLabels ==
  { Acme, Globex, Localhost, Www, Com, <<"1", "2", "7">>, <<"0">>, <<"1", "a">>,
    <<"W", "w", "w">> }

Hostnames ==
  { <<a>> : a \in HostLabels } \cup { <<a, b>> : a, b \in HostLabels }
  \cup { << <<"1", "2", "7">>, <<"0">>, <<"0">>, <<"1">> >>,
         <<Www, Example, Com>>, <<Acme, Example, Com>>, <<Example, Com>> }

\* organization subdomains a URL is built for
OrgIds == {Acme, Globex}

buildOrgUrl_nested(subdomain, path, hostname) ==
  Url(<<subdomain>> \o hostname, path, <<>>)

\* `${protocol}//${subdomain}.${baseDomain}${path}`
buildOrgUrl(subdomain, path, hostname) ==
  Url(<<subdomain>> \o getBaseDomain(hostname, Port).hostname, path, <<>>)

InitTenant ==
  \E hn \in Hostnames :
    /\ loc = Url(hn, P_home, <<>>)
    /\ history = <<Url(hn, P_home, <<>>)>>
    /\ store = [h \in Hosts |-> EmptySession]
    /\ subctx = [h \in Hosts |-> Null]
    /\ reqs = [r \in ReqIds |-> FreeReq]
    /\ last = FreeReq
    /\ transfer = NoTransfer
    /\ toast = NoToast
    /\ event = Ev("Init", 0, "none")
    /\ sent = NoPayload
    /\ consumed = {}
    /\ loads = 0

\* the page calls the backend: the request interceptor resolves the tenant
CallApi ==
  /\ FreeIds # {}
  /\ reqs' = SendVia(reqs, "api", NoUser, EmptySession, loc.hostname)
  /\ event' = Ev("CallApi", NextId(reqs), "none")
  /\ UNCHANGED <<loc, history, store, subctx, last, transfer, toast, sent, consumed, loads>>

\* window.location.href = buildOrgUrl(t, p): a link to another organization
GoToOrg(t, p) ==
  /\ loads < MaxLoads
  /\ loads' = loads + 1
  /\ loc' = buildOrgUrl(t, p, loc.hostname)
  /\ history' = Push(history, loc')
  /\ reqs' = Abandon(reqs)
  /\ event' = Ev("buildOrgUrl", 0, "load")
  /\ UNCHANGED <<store, subctx, last, transfer, toast, sent, consumed>>

\* the redirect of useAuth.logout on a tenant origin:
\* redirectToSubdomain(null, '/login', false)
LogoutRedirect ==
  /\ getCurrentSubdomain(loc.hostname) # Null
  /\ loc' = redirectToSubdomain(Null, P_login, FALSE, EmptySession, loc.hostname)
  /\ history' = Push(history, loc')
  /\ reqs' = Abandon(reqs)
  /\ event' = Ev("LogoutRedirect", 0, "load")
  /\ UNCHANGED <<store, subctx, last, transfer, toast, sent, consumed, loads>>

NextTenant ==
  \/ CallApi
  \/ \E t \in OrgIds, p \in {P_home, P_test} : GoToOrg(t, p)
  \/ LogoutRedirect

SpecTenant == InitTenant /\ [][NextTenant]_vars

(***************************************************************************)
(* A session that the backend does not accept for the tenant of the page:  *)
(* every API call is answered 401, the refresh endpoint answers as it likes *)
(***************************************************************************)

\* a protected page of a tenant origin, with the session of a user who has no
\* membership there
InitMismatch ==
  \E sd \in {Acme, Globex}, pr \in Pairs, p \in {P_home, P_test}, u \in Users :
    /\ ~hasAccess(u, sd)
    /\ loc = Url(TenantHost(sd), p, <<>>)
    /\ history = <<Url(TenantHost(sd), p, <<>>)>>
    /\ store = [h \in Hosts |->
                  IF h = TenantHost(sd)
                  THEN setUser(setTokens(EmptySession, pr.access, pr.refresh), u)
                  ELSE EmptySession]
    /\ subctx = [h \in Hosts |-> Null]
    /\ reqs = [r \in ReqIds |-> FreeReq]
    /\ last = FreeReq
    /\ transfer = NoTransfer
    /\ toast = NoToast
    /\ event = Ev("Init", 0, "none")
    /\ sent = NoPayload
    /\ consumed = {}
    /\ loads = 0

\* a request that was handed back to its caller is forgotten, so that the
\* page can go on calling the backend: MaxReq bounds the requests in flight
Release(r) ==
  /\ reqs[r].st = "done"
  /\ reqs' = [reqs EXCEPT ![r] = FreeReq]
  /\ event' = Ev("Release", r, "none")
  /\ UNCHANGED <<loc, history, store, subctx, last, transfer, toast, sent, consumed, loads>>

NextMismatch ==
  \/ SendApi
  \/ \E r \in ReqIds : Release(r)
  \/ \E r \in ReqIds : RespondError(r, 401)
  \/ \E r \in ReqIds, pair \in Pairs : RefreshOk(r, pair)
  \/ \E r \in ReqIds, status \in Statuses \ {200} : RefreshFail(r, status)

\* the steps of SendApi, RespondError(r, 401), RefreshOk(r, _) and
\* RefreshFail(r, _), told by the guard and the event
Called ==
  /\ loc.path # P_transfer
  /\ Cardinality(FreeIds) > ReservedIds
  /\ event' = Ev("SendApi", NextId(reqs), "none")

Refused(r) ==
  /\ reqs[r].st \in {"sent", "resent"}
  /\ event' \in {Ev("RespondError", r, nav) : nav \in {"none", "load"}}

Refreshed(r) ==
  /\ reqs[r].st = "refreshing"
  /\ event' \in {Ev("RefreshOk", r, "none"), Ev("RefreshFail", r, "load")}

\* the page keeps calling the backend, and the backend and the refresh
\* endpoint answer every call
FairMismatch ==
  /\ WF_event(Called)
  /\ \A r \in ReqIds : /\ WF_event(Refused(r))
                        /\ WF_event(Refreshed(r))
                        /\ WF_vars(Release(r))

SpecMismatch == InitMismatch /\ [][NextMismatch]_vars /\ FairMismatch

(***************************************************************************)
(* A signed-in page: requests and logout from a protected view, directly    *)
(* after login on the origin or after a Transfer Handoff from the base      *)
(* origin                                                                   *)
(***************************************************************************)

\* h0 holds the session of user u; when the session came by a Transfer
\* Handoff, the base origin that sent it holds the same session
InitLogout ==
  \E h0 \in OpenHosts, pr \in Pairs, u \in Users, p \in {P_home, P_test},
     handed \in BOOLEAN :
    LET session == setUser(setTokens(EmptySession, pr.access, pr.refresh), u)
    IN  /\ handed => /\ h0 # BaseHost
                     /\ hasAccess(u, getCurrentSubdomain(h0))
        /\ loc = Url(h0, p, <<>>)
        /\ history = <<Url(h0, p, <<>>)>>
        /\ store = [h \in Hosts |->
                      IF h = h0 \/ (handed /\ h = BaseHost) THEN session
                      ELSE EmptySession]
        /\ subctx = [h \in Hosts |-> Null]
        /\ reqs = [r \in ReqIds |-> FreeReq]
        /\ last = FreeReq
        /\ transfer = NoTransfer
        /\ toast = NoToast
        /\ event = Ev("Init", 0, "none")
        /\ sent = NoPayload
        /\ consumed = {}
        /\ loads = 0

NextLogout ==
  \/ SendApi
  \/ LogoutClick
  \/ \E r \in ReqIds : RespondOk(r, NoPair)
  \/ \E r \in ReqIds, status \in Statuses \ {200} : RespondError(r, status)
  \/ \E r \in ReqIds, pair \in Pairs : RefreshOk(r, pair)
  \/ \E r \in ReqIds, status \in Statuses \ {200} : RefreshFail(r, status)

SpecLogout == InitLogout /\ [][NextLogout]_vars

(***************************************************************************)
(* Properties                                                              *)
(***************************************************************************)

Err(src, status) == [type |-> "err", src |-> src, status |-> status]

HasTokenParams(u) ==
  \/ SearchParamsGet(u.query, Str_token) # Null
  \/ SearchParamsGet(u.query, Str_refresh_token) # Null

\* C1: at most one refresh call is issued on behalf of a request: the first
\* 401 marks the request as retried and starts the only refresh call, and a
\* 401 answered to the re-issued request is handed to the caller with no second
\* refresh call, no second re-issue and no logout.
C1_RetryBound ==
  [][\A r \in ReqIds :
       /\ reqs'[r].nRefresh <= 1
       /\ last'.nRefresh <= 1
       /\ reqs'[r].nSend <= 2
       /\ (reqs[r].st = "sent" /\ reqs'[r].st = "refreshing")
            => reqs'[r].retry /\ reqs'[r].nRefresh = 1
       /\ (reqs[r].st = "resent" /\ event'.op = "RespondError" /\ event'.req = r)
            => /\ reqs'[r].st = "done"
               /\ last'.out = Err("reissue", last'.out.status)
               /\ last'.nRefresh = 1
               /\ last'.nSend = 2
               /\ reqs[r].kind # "logout" => store' = store /\ event'.nav = "none"
    ]_vars

C1_Witness ==
  /\ event.op = "RespondError"
  /\ last.out = Err("reissue", 401)
  /\ last.nRefresh = 1
  /\ last.nSend = 2

\* C2: when the refresh call of a request succeeds, the returned token pair is
\* in the Session Store at the moment the request is re-issued, the re-issue is
\* the request's second and last send and carries the new access token, and
\* what the caller gets is the outcome of that re-issued request.
C2_RefreshThenReissue ==
  [][\A r \in ReqIds :
       /\ (reqs[r].st = "refreshing" /\ reqs'[r].st = "resent")
            => /\ reqs'[r].got \in Pairs
               /\ store'[loc.hostname].token = reqs'[r].got.access
               /\ store'[loc.hostname].refreshToken = reqs'[r].got.refresh
               /\ store'[loc.hostname].isAuthenticated
               /\ reqs'[r].auth = reqs'[r].got.access
               /\ reqs'[r].nSend = 2
               /\ last' = last
       /\ reqs[r].st = "resent" => reqs'[r].st \in {"resent", "done", "abandoned"}
       /\ (reqs[r].st = "resent" /\ reqs'[r].st = "done")
            => /\ last'.out.src = "reissue"
               /\ last'.nSend = 2
               /\ last'.auth = reqs[r].got.access
    ]_vars

C2_Witness ==
  /\ event.op = "RespondOk"
  /\ last.kind = "api"
  /\ last.got \in Pairs
  /\ last.out = [type |-> "ok", src |-> "reissue", status |-> 200]

\* C3: when a not-yet-retried request is answered 401 and no refresh token is
\* stored, or when its refresh call fails, the Session Store of the origin is
\* cleared, the page is loaded at /login, the request ends in failure after
\* its single send, and nothing is left in flight (no re-issue, no refresh).
C3_RefreshFailedLogout ==
  [][\A r \in ReqIds :
       ( /\ event'.req = r
         /\ reqs'[r].st = "done"
         /\ \/ reqs[r].st = "refreshing"
            \/ /\ reqs[r].st = "sent"
               /\ store[loc.hostname].refreshToken = Null
               /\ last'.out.status = 401 )
       => /\ store'[loc.hostname] = EmptySession
          /\ loc'.path = P_login /\ loc'.query = <<>>
          /\ reqs[r].kind # "logout" => loc'.hostname = loc.hostname
          /\ event'.nav = "load"
          /\ last'.out.type = "err"
          /\ last'.nSend = 1
          /\ last'.nRefresh = reqs[r].nRefresh
          /\ \A q \in ReqIds : reqs'[q].st \notin {"sent", "refreshing", "resent"}
    ]_vars

C3_Witness ==
  /\ event.op = "RefreshFail"
  /\ last.rtok # Null
  /\ store[loc.hostname] = EmptySession
  /\ loc.path = P_login

\* C4 as claimed: in both failure branches of the 401 policy the caller gets
\* the original 401 response of its request.
C4_OriginalErrorPropagated ==
  (event.op \in {"RespondError", "RefreshFail"} /\ event.nav = "load"
     /\ last.kind # "logout")
    => last.out = Err("first", 401)

\* C4 as amended: with no refresh token stored the caller gets the original 401
\* response; when the refresh call fails the caller gets the error of the
\* refresh call.
C4_FailureErrors ==
  /\ (event.op = "RespondError" /\ event.nav = "load" /\ last.kind # "logout")
       => last.out = Err("first", 401)
  /\ event.op = "RefreshFail" => last.out.type = "err" /\ last.out.src = "refresh"

C4_Witness ==
  /\ event.op = "RefreshFail"
  /\ event.nav = "load"
  /\ last.out.src = "refresh"

\* C5: decoding the transfer URL built from a payload with both tokens leaves
\* the receiving origin's Session Store with the payload's access and refresh
\* tokens, isAuthenticated true and the payload's user when it has one, never
\* ends in MissingTokens, and lands on the payload's redirect path (/home when
\* the URL has no redirect parameter) with an empty query string.
C5_RoundTrip ==
  (sent.token # Null /\ sent.refreshToken # Null /\ transfer.phase # "idle")
    => /\ transfer.phase \in {"arrived", "timer", "done"}
       /\ transfer.phase \in {"timer", "done"}
            => /\ store[loc.hostname].token = sent.token
               /\ store[loc.hostname].refreshToken = sent.refreshToken
               /\ store[loc.hostname].isAuthenticated
               /\ sent.user # NoUser => store[loc.hostname].user = sent.user
       /\ transfer.phase = "done"
            => /\ loc.path = IF sent.redirect = Null THEN P_home ELSE sent.redirect
               /\ loc.query = <<>>

C5_Witness ==
  /\ transfer.phase = "done"
  /\ event.op = "TransferTimer"
  /\ sent.user # NoUser
  /\ store[loc.hostname].user = sent.user
  /\ store[loc.hostname].token = sent.token
  /\ sent.redirect = <<"/", "q", "?", "x", "=", "1", "&", "y", "=", "%">>
  /\ loc.path = sent.redirect

\* C6: decoding a transfer URL that lacks the access token or the refresh
\* token leaves every Session Store as it was, also when the URL has a user
\* parameter, and navigates to /login.
C6_MissingTokens ==
  [][( /\ transfer.phase = "arrived"
       /\ event'.op = "TransferDecode"
       /\ (sent.token = Null \/ sent.refreshToken = Null) )
     => /\ store' = store
        /\ loc' = Url(loc.hostname, P_login, <<>>)
        /\ transfer'.phase = "failed"
    ]_vars

C6_Witness ==
  /\ event.op = "TransferDecode"
  /\ transfer.phase = "failed"
  /\ sent.token # Null
  /\ sent.refreshToken = Null
  /\ sent.udata # Null
  /\ loc.path = P_login

\* C7 as claimed: once the decode is over (success or MissingTokens), neither
\* the visible URL nor a retained history entry of the origin has a token or
\* refresh_token parameter.
C7_NoTokensInHistory ==
  transfer.phase \in {"done", "failed"}
    => \A i \in 1..Len(history) :
         history[i].hostname = loc.hostname => ~HasTokenParams(history[i])

\* C8 as claimed: decoding a transfer URL that was already decoded on this
\* origin persists nothing and falls back to /login.
C8_ReplayRejected ==
  [][( /\ transfer.phase = "arrived"
       /\ event'.op = "TransferDecode"
       /\ \E c \in consumed : c.hostname = loc.hostname /\ c.query = loc.query )
     => /\ transfer'.phase = "failed"
        /\ store' = store
        /\ loc'.path = P_login
    ]_vars

\* C9 as claimed: when the credential exchange is rejected, with 401 or any
\* other status, the Session Store is unchanged, there is no navigation, no
\* transfer and no refresh call, and the service's message is shown.
C9_RejectedLoginIsInert ==
  [][\A r \in ReqIds :
       ( /\ reqs[r].kind = "login"
         /\ reqs[r].st = "sent"
         /\ event'.op = "RespondError"
         /\ event'.req = r )
       => /\ store' = store
          /\ loc' = loc
          /\ history' = history
          /\ event'.nav = "none"
          /\ sent' = sent
          /\ reqs'[r].st = "done"
          /\ toast'.kind = "error" /\ toast'.src = "first"
    ]_vars

\* C10: when the profile fetch of a login on the base origin returns a user
\* with exactly one membership, the page is loaded at the transfer URL of that
\* membership's tenant origin, carrying the tokens of the base origin's store
\* and the redirect path /home, when the membership has a subdomain; otherwise
\* the flow navigates in the page to /home on the base origin and builds no
\* transfer URL.
C10_SingleMembershipLogin ==
  [][\A r \in ReqIds :
       ( /\ reqs[r].kind = "profile"
         /\ InFlight(r)
         /\ event'.op = "RespondOk"
         /\ event'.req = r
         /\ loc.hostname = BaseHost
         /\ Len(reqs[r].who.organizations) = 1 )
       => LET sub == reqs[r].who.organizations[1].subdomain
          IN  IF sub # Null
              THEN /\ event'.nav = "load"
                   /\ loc'.hostname = <<sub>> \o BaseHost
                   /\ loc'.path = P_transfer
                   /\ transfer'.phase = "arrived"
                   /\ store'[BaseHost].token # Null
                   /\ SearchParamsGet(loc'.query, Str_token) = store'[BaseHost].token
                   /\ SearchParamsGet(loc'.query, Str_refresh_token)
                        = store'[BaseHost].refreshToken
                   /\ SearchParamsGet(loc'.query, Str_redirect) = P_home
              ELSE /\ event'.nav = "push"
                   /\ loc' = Url(BaseHost, P_home, <<>>)
                   /\ sent' = sent
    ]_vars

C10_Witness ==
  /\ event.op = "RespondOk"
  /\ event.nav = "load"
  /\ last.kind = "profile"
  /\ last.who.organizations = <<Org(Acme)>>
  /\ loc.hostname = TenantHost(Acme)
  /\ loc.path = P_transfer
  /\ transfer.phase = "arrived"

\* the step in which the profile fetch of a login comes back: request r of the
\* login flow is answered with the user, and onSuccess runs to its end
ProfileFetched(r) ==
  /\ reqs[r].kind = "profile"
  /\ InFlight(r)
  /\ event'.op = "RespondOk"
  /\ event'.req = r

MemberOf(user, hostname) ==
  /\ hostname # BaseHost
  /\ \E i \in 1..Len(user.organizations) : user.organizations[i].subdomain = hostname[1]

\* C11 as claimed: a login on tenant origin X by a user with memberships, none
\* of them for X, ends with a page load on the tenant origin of the first
\* membership, or on the base origin when the first membership has no
\* subdomain.
C11_ForeignTenantLogin ==
  [][\A r \in ReqIds :
       ( /\ ProfileFetched(r)
         /\ loc.hostname # BaseHost
         /\ Len(reqs[r].who.organizations) >= 1
         /\ ~MemberOf(reqs[r].who, loc.hostname) )
       => LET sub == reqs[r].who.organizations[1].subdomain
          IN  /\ event'.nav = "load"
              /\ loc'.hostname = IF sub # Null THEN <<sub>> \o BaseHost ELSE BaseHost
    ]_vars

\* C12: when the profile fetch of a login returns a user with no membership
\* (on any origin), or a user with a membership for the tenant origin the
\* login runs on, the flow navigates in the page to /home on that origin and
\* builds no transfer URL.
C12_StayAndLandHome ==
  [][\A r \in ReqIds :
       ( /\ ProfileFetched(r)
         /\ \/ Len(reqs[r].who.organizations) = 0
            \/ MemberOf(reqs[r].who, loc.hostname) )
       => /\ event'.nav = "push"
          /\ loc' = Url(loc.hostname, P_home, <<>>)
          /\ sent' = sent
          /\ transfer' = NoTransfer
          /\ store'[loc.hostname].user = reqs[r].who
          /\ store'[loc.hostname].token = store[loc.hostname].token
    ]_vars

C12_Witness ==
  /\ event.op = "RespondOk"
  /\ event.nav = "push"
  /\ last.kind = "profile"
  /\ last.who.organizations = <<Org(Acme), Org(Globex)>>
  /\ loc = Url(TenantHost(Acme), P_home, <<>>)

\* C13: when the profile fetch of a login on the base origin returns a user
\* with more than one membership, the flow navigates in the page to the
\* Organization Selector and builds no transfer URL; and while the selector is
\* shown on the base origin, only the selection of a membership (or a URL the
\* user opens) leaves the base origin or builds a transfer URL.
C13_SelectorBeforeTransfer ==
  [][/\ \A r \in ReqIds :
          ( /\ ProfileFetched(r)
            /\ loc.hostname = BaseHost
            /\ Len(reqs[r].who.organizations) > 1 )
          => /\ event'.nav = "push"
             /\ loc' = Url(BaseHost, P_select, <<>>)
             /\ sent' = sent
             /\ transfer' = NoTransfer
     /\ ( /\ SelectorShown
          /\ loc.hostname = BaseHost
          /\ (loc'.hostname # BaseHost \/ sent' # sent) )
        => event'.op \in {"handleSelectOrganization", "OpenPage", "OpenTransferUrl",
                          "ReplayTransferUrl"}
    ]_vars

C13_Witness ==
  /\ event.op = "RespondOk"
  /\ last.kind = "profile"
  /\ Len(last.who.organizations) = 2
  /\ loc = Url(BaseHost, P_select, <<>>)
  /\ SelectorShown

\* C14 as claimed: when a login, a transfer decode or an organization selection
\* has just landed on a protected view of tenant origin X and the stored user
\* has a membership, the stored user has a membership for X.
C14_SessionTenantConsistency ==
  ( /\ \/ event.op = "RespondOk" /\ last.kind = "profile" /\ event.nav = "push"
       \/ event.op \in {"TransferTimer", "handleSelectOrganization", "SkipSelection"}
    /\ loc.hostname # BaseHost
    /\ loc.path \notin PublicPaths
    /\ Len(store[loc.hostname].user.organizations) >= 1 )
  => MemberOf(store[loc.hostname].user, loc.hostname)

\* C15 as claimed: every step that clears the Session Store of a tenant origin
\* (a logout, asked for by the user or forced by the Gateway Client) ends on
\* the login page of the base origin, with no query string.
C15_LogoutToBaseLogin ==
  [][( /\ loc.hostname # BaseHost
       /\ store[loc.hostname] # EmptySession
       /\ store'[loc.hostname] = EmptySession )
     => loc' = Url(BaseHost, P_login, <<>>)
    ]_vars

\* C17: every request in flight, re-issued ones included, carries the tenant
\* header with the subdomain of the page's hostname when the hostname has one,
\* and carries no tenant header on the base origin.
C17_TenantHeader ==
  \A r \in ReqIds :
    InFlight(r) =>
      /\ reqs[r].tenant = getCurrentSubdomain(loc.hostname)
      /\ loc.hostname = BaseHost => reqs[r].tenant = Null
      /\ loc.hostname # BaseHost => reqs[r].tenant = loc.hostname[1]

C17_Witness ==
  \E r \in ReqIds :
    /\ reqs[r].st = "resent"
    /\ loc.hostname = TenantHost(Acme)
    /\ reqs[r].tenant = Acme

\* C19 as claimed: after the decode of a transfer URL with both tokens and a
\* user snapshot that does not parse, the receiving origin's store holds the
\* token pair and no user, whatever it held before.
C19_NoCachedUser ==
  ( /\ transfer.phase \in {"timer", "done"}
    /\ sent.token # Null /\ sent.refreshToken # Null
    /\ sent.udata # Null /\ sent.user = NoUser )
  => /\ store[loc.hostname].token = sent.token
     /\ store[loc.hostname].refreshToken = sent.refreshToken
     /\ store[loc.hostname].user = NoUser

\* C20: in the Organization Selector a click on membership M loads the
\* transfer URL of M's tenant origin with the tokens of the current store and
\* the redirect path /home when M has a subdomain, and otherwise navigates in
\* the page to /home on the current origin and builds no transfer URL; the
\* skip button navigates in the page to /home on the current origin, builds no
\* transfer URL and leaves every Session Store as it was.
C20_SelectOrganization ==
  [][/\ \A i \in 1..2 :
          (SelectorShown /\ event'.op = "handleSelectOrganization" /\ event'.req = i)
          => LET h   == loc.hostname
                 sub == store[h].user.organizations[i].subdomain
             IN  IF sub # Null
                 THEN /\ event'.nav = "load"
                      /\ loc'.hostname = <<sub>> \o BaseHost
                      /\ loc'.path = P_transfer
                      /\ SearchParamsGet(loc'.query, Str_token) = store[h].token
                      /\ SearchParamsGet(loc'.query, Str_refresh_token)
                           = store[h].refreshToken
                      /\ SearchParamsGet(loc'.query, Str_redirect) = P_home
                      /\ store[h].token # Null /\ store[h].refreshToken # Null
                 ELSE /\ event'.nav = "push"
                      /\ loc' = Url(h, P_home, <<>>)
                      /\ sent' = sent
                      /\ store' = store
     /\ (SelectorShown /\ event'.op = "SkipSelection")
          => /\ event'.nav = "push"
             /\ loc' = Url(loc.hostname, P_home, <<>>)
             /\ sent' = sent
             /\ store' = store
    ]_vars

C20_Witness ==
  /\ event.op = "handleSelectOrganization"
  /\ event.nav = "load"
  /\ loc.hostname = TenantHost(Globex)
  /\ loc.path = P_transfer
  /\ sent.user.organizations = <<Org(Acme), Org(Globex)>>
  /\ sent.redirect = P_home

\* the credential exchange of a user whose only membership is acme is pending
\* on the base origin
LoginPending ==
  \E r \in ReqIds :
    /\ reqs[r].kind = "login"
    /\ InFlight(r)
    /\ reqs[r].who.organizations = <<Org(Acme)>>
    /\ loc.hostname = BaseHost

\* the credential exchange has just returned the pair pr
Issued(pr) ==
  /\ event.op = "RespondOk"
  /\ last.kind = "login"
  /\ last.who.organizations = <<Org(Acme)>>
  /\ loc.hostname = BaseHost
  /\ store[BaseHost].token = pr.access
  /\ store[BaseHost].refreshToken = pr.refresh

HandedOff(pr) ==
  /\ loc = Url(TenantHost(Acme), P_home, <<>>)
  /\ store[TenantHost(Acme)].token = pr.access
  /\ store[TenantHost(Acme)].refreshToken = pr.refresh
  /\ store[TenantHost(Acme)].isAuthenticated

\* C16: when every call is answered, a login on the base origin by a user
\* whose only membership has subdomain acme gets its token pair, and from then
\* on the browser eventually is at /home on acme.localhost with that pair in
\* the Session Store of that origin and isAuthenticated true.
C16_HandoffCompletes ==
  /\ LoginPending ~> (\E pr \in Pairs : Issued(pr))
  /\ \A pr \in Pairs : Issued(pr) ~> HandedOff(pr)

C16_Witness ==
  /\ event.op = "TransferTimer"
  /\ last.kind = "profile"
  /\ last.who.organizations = <<Org(Acme)>>
  /\ \E pr \in Pairs : HandedOff(pr)
  /\ store[TenantHost(Acme)].user = last.who

\* C18: rendering a protected route admits the visitor exactly when the
\* Session Store has isAuthenticated true or a non-empty access token and
\* otherwise replaces the route by /login; it leaves the Session Store as it
\* was, so the guard gives the same answer when it is evaluated again.
C18_RouteGuard ==
  [][\A p \in {P_login, P_home, P_test} :
       Visit(p) =>
         LET s == store[loc.hostname]
         IN  /\ store' = store
             /\ canEnter(store'[loc'.hostname]) = canEnter(s)
             /\ canEnter(s) <=> (s.isAuthenticated \/ s.token # Null)
             /\ p \notin PublicPaths =>
                  /\ loc'.path = IF s.isAuthenticated \/ s.token # Null THEN p
                                 ELSE P_login
                  /\ event'.nav = IF s.isAuthenticated \/ s.token # Null THEN "push"
                                  ELSE "replace"
    ]_vars

C18_Witness ==
  /\ event = Ev("Visit", 0, "push")
  /\ loc.path = P_test
  /\ ~store[loc.hostname].isAuthenticated
  /\ store[loc.hostname].token # Null

\* the tenant the specification assigns to hostname h
TenantOf(h) ==
  IF /\ Len(h) >= 2
     /\ Head(h) \notin {Localhost, Www}
     /\ \E i \in 1..Len(Head(h)) : Head(h)[i] \notin Digits
  THEN Head(h) ELSE Null

\* C21: for the hostname of every page, getCurrentSubdomain is the first
\* label, unchanged, when there are at least two labels and the first is
\* neither localhost nor www nor made only of digits, and null otherwise; the
\* tenant header of every request sent from the page is that value.
\* acme.localhost and acme.example.com give acme; localhost, 127.0.0.1 and
\* www.example.com give null.
C21_ResolveTenant ==
  /\ getCurrentSubdomain(loc.hostname) = TenantOf(loc.hostname)
  /\ \A r \in ReqIds : reqs[r].st = "sent" => reqs[r].tenant = TenantOf(loc.hostname)
  /\ getCurrentSubdomain(<<Acme, Localhost>>) = Acme
  /\ getCurrentSubdomain(<<Acme, Example, Com>>) = Acme
  /\ getCurrentSubdomain(<<Localhost>>) = Null
  /\ getCurrentSubdomain(<< <<"1", "2", "7">>, <<"0">>, <<"0">>, <<"1">> >>) = Null
  /\ getCurrentSubdomain(<<Www, Example, Com>>) = Null

C21_Witness ==
  /\ loc.hostname = <<Acme, Example, Com>>
  /\ \E r \in ReqIds : reqs[r].st = "sent" /\ reqs[r].tenant = Acme

\* C22: getBaseDomain drops the first label of the hostname exactly when
\* getCurrentSubdomain is non-null and keeps the port; the URL built for an
\* organization t has the host t.base, which resolves to t and has the base
\* domain of the origin it was built on.  From localhost:3000,
\* buildOrgUrl("acme", "/home") is acme.localhost:3000/home.
C22_BuildTenantUrl ==
  [][\A t \in OrgIds, p \in {P_home, P_test} :
       GoToOrg(t, p) =>
         LET h    == loc.hostname
             base == IF getCurrentSubdomain(h) # Null THEN Tail(h) ELSE h
         IN  /\ \A port \in {Null, Port} :
                  getBaseDomain(h, port) = [hostname |-> base, port |-> port]
             /\ loc' = Url(<<t>> \o base, p, <<>>)
             /\ getCurrentSubdomain(loc'.hostname) = t
             /\ getBaseDomain(loc'.hostname, Port) = getBaseDomain(h, Port)
             /\ buildOrgUrl(Acme, P_home, BaseHost) = Url(<<Acme, Localhost>>, P_home, <<>>)
    ]_vars

C22_Witness ==
  /\ event.op = "buildOrgUrl"
  /\ Len(history) = 2
  /\ history[1].hostname = <<Globex, Localhost>>
  /\ loc = Url(<<Acme, Localhost>>, P_test, <<>>)

\* C30: the base domain derived from a tenant hostname is never itself a
\* tenant hostname: getBaseDomain is idempotent, and the logout redirect
\* lands on an origin that resolves to no tenant, so that its requests carry
\* no tenant header.
C30_BaseIsNotTenant ==
  LET base == getBaseDomain(loc.hostname, Port)
  IN  /\ getCurrentSubdomain(loc.hostname) # Null =>
            /\ getCurrentSubdomain(base.hostname) = Null
            /\ getBaseDomain(base.hostname, Port) = base
      /\ event.op = "LogoutRedirect" => getCurrentSubdomain(loc.hostname) = Null

\* C23: a session that the tenant of the page does not accept, every API
\* call of which is answered 401, leads to the Session Store being cleared
\* and the page being the login page, whatever the refresh endpoint answers.
C23_MismatchResolved ==
  store[loc.hostname].token # Null
    ~> (store[loc.hostname] = EmptySession /\ loc.path = P_login)

\* C24: a request makes at most one refresh call; a first 401 with a refresh
\* token stored always starts the refresh call of that request, carrying the
\* stored refresh token, whether or not refresh calls of other requests are
\* in flight, and leaves those as they are: as many refresh calls as failing
\* requests can be in flight at once, with the same refresh token.
C24_RefreshPerRequest ==
  [][\A r \in ReqIds :
       /\ reqs'[r].nRefresh <= 1
       /\ ( /\ RespondError(r, 401)
            /\ reqs[r].st = "sent"
            /\ store[loc.hostname].refreshToken # Null )
          => /\ reqs'[r].st = "refreshing"
             /\ reqs'[r].nRefresh = 1
             /\ reqs'[r].rtok = store[loc.hostname].refreshToken
             /\ \A q \in ReqIds \ {r} : reqs'[q] = reqs[q]
    ]_vars

C24_Witness ==
  \E r, q \in ReqIds :
    /\ r # q
    /\ reqs[r].st = "refreshing"
    /\ reqs[q].st = "refreshing"
    /\ reqs[r].rtok = reqs[q].rtok
    /\ reqs[r].rtok # Null

\* C25: when two requests were answered 401 with the same refresh token
\* stored and the refresh call of one of them has succeeded, the failure of
\* the other's refresh call leaves the Session Store authenticated with the
\* token pair the successful refresh returned, and the page where it is.
C25_FailedRefreshAfterSuccess ==
  [][\A r, q \in ReqIds :
       ( /\ r # q
         /\ reqs[r].st = "refreshing"
         /\ reqs[q].st = "resent"
         /\ reqs[q].rtok = reqs[r].rtok
         /\ event'.op = "RefreshFail"
         /\ event'.req = r )
       => /\ store'[loc.hostname].isAuthenticated
          /\ store'[loc.hostname].token = reqs[q].got.access
          /\ store'[loc.hostname].refreshToken = reqs[q].got.refresh
          /\ loc' = loc
    ]_vars

\* C26: an origin's Session Store that is cleared (unauthenticated, no
\* tokens, no user) changes only by a successful login or a transfer decode
\* on that origin: no refresh call or profile fetch that was in flight when
\* logout ran writes tokens or a user back.
C26_ClearedStaysCleared ==
  [][\A h \in Hosts :
       (store[h] = EmptySession /\ store'[h] # EmptySession)
       => \/ event'.op = "TransferDecode"
          \/ /\ event'.op = "RespondOk"
             /\ reqs[event'.req].kind = "login"
    ]_vars

\* C28: when the logout on a tenant origin has landed on the login page of
\* the base origin, no origin's Session Store holds a token, and the Route
\* Guard of the base origin denies entry.
C28_LogoutEverywhere ==
  ( /\ last.kind = "logout"
    /\ event.req # 0
    /\ event.nav = "load"
    /\ loc = Url(BaseHost, P_login, <<>>)
    /\ Len(history) = 2
    /\ getCurrentSubdomain(history[1].hostname) # Null )
  => /\ \A h \in Hosts : store[h].token = Null /\ store[h].refreshToken = Null
     /\ ~canEnter(store[BaseHost])

C29_LoginAllOrNothing ==
  [][\A r \in ReqIds :
       ( /\ reqs[r].kind = "profile"
         /\ event'.req = r
         /\ last'.kind = "profile"
         /\ last'.out.type = "err" )
       => /\ ~( /\ store'[loc.hostname].isAuthenticated
                /\ store'[loc.hostname].user # reqs[r].who )
          /\ loc' = loc
          /\ event'.nav = "none"
    ]_vars

====
